---- MODULE Spec2Model ----
(***************************************************************************)
(* Ingestion pipeline of the Z-API CRM backend: payload normalizer, event  *)
(* classifier, field extractor, conversation store (Chats) and message log *)
(* store (Messages).  The repository holds four revisions of the server:   *)
(*   part_000  - src/unnamed/part_000 (walk normalizer, backfill)          *)
(*   part_001  - src/unnamed/part_001 (walk normalizer, event classifier)  *)
(*   server_a  - src/server.js:1-67   (five-shape normalizer, acks)        *)
(*   server_b  - src/server.js:88-339 (single-shape webhook, backfill)     *)
(* The variable rev names the revision that is running.                    *)
(***************************************************************************)
EXTENDS Integers, Sequences, FiniteSets, TLC

VARIABLES rev, Chats, Messages, Pushed, last, nOps, clock, bf, configured, reader

vars == <<rev, Chats, Messages, Pushed, last, nOps, clock, bf, configured, reader>>

(***************************************************************************)
(* JavaScript values.  Strings are sequences of one-character strings so   *)
(* that split, replace, slice, trim and regular-expression tests are       *)
(* computed on their characters.                                           *)
(***************************************************************************)
Undef == [t |-> "undef"]
Null == [t |-> "null"]
NaN == [t |-> "nan"]
Bool(b) == [t |-> "bool", b |-> b]
Num(n) == [t |-> "num", n |-> n]
Str(s) == [t |-> "str", s |-> s]
\* an object is the sequence of its <<key, value>> properties in key order
Obj(p) == [t |-> "obj", p |-> p]
Arr(e) == [t |-> "arr", e |-> e]

EmptyStr == Str(<<>>)

\* truthiness, as used by ||, &&, ! and if
Truthy(v) ==
  CASE v.t = "undef" -> FALSE
    [] v.t = "null" -> FALSE
    [] v.t = "nan" -> FALSE
    [] v.t = "bool" -> v.b
    [] v.t = "num" -> v.n # 0
    [] v.t = "str" -> v.s # <<>>
    [] OTHER -> TRUE

\* a || b
Or(a, b) == IF Truthy(a) THEN a ELSE b

\* a && b
And(a, b) == IF Truthy(a) THEN b ELSE a

\* a ?? b
Nullish(a, b) == IF a.t \in {"undef", "null"} THEN b ELSE a

\* x.k (and x?.k): undefined when x has no such property
Get(x, k) ==
  IF x.t = "obj" /\ \E i \in 1..Len(x.p) : x.p[i][1] = k
  THEN x.p[CHOOSE i \in 1..Len(x.p) : x.p[i][1] = k][2]
  ELSE Undef

\* x.k throws a TypeError when x is null or undefined
Throws(x) == x.t \in {"undef", "null"}

\* a === b on primitives
StrictEq(a, b) == a.t # "nan" /\ a = b

Digits == <<"0", "1", "2", "3", "4", "5", "6", "7", "8", "9">>

IsDigit(c) == \E i \in 1..10 : Digits[i] = c

DigitVal(c) == (CHOOSE i \in 1..10 : Digits[i] = c) - 1

RECURSIVE DigitsToNat(_)
DigitsToNat(s) ==
  IF s = <<>> THEN 0
  ELSE 10 * DigitsToNat(SubSeq(s, 1, Len(s) - 1)) + DigitVal(s[Len(s)])

RECURSIVE NatToDigits(_)
NatToDigits(n) ==
  IF n < 10 THEN <<Digits[n + 1]>>
  ELSE NatToDigits(n \div 10) \o <<Digits[(n % 10) + 1]>>

\* Number(v)
Number(v) ==
  CASE v.t = "num" -> v
    [] v.t = "null" -> Num(0)
    [] v.t = "bool" -> Num(IF v.b THEN 1 ELSE 0)
    [] v.t = "str" ->
         IF v.s = <<>> THEN Num(0)
         ELSE IF \A i \in 1..Len(v.s) : IsDigit(v.s[i]) THEN Num(DigitsToNat(v.s))
         ELSE IF v.s[1] = "-" /\ Len(v.s) > 1 /\ \A i \in 2..Len(v.s) : IsDigit(v.s[i])
         THEN Num(0 - DigitsToNat(Tail(v.s)))
         ELSE NaN
    [] OTHER -> NaN

\* String(v) and template interpolation of a primitive
String(v) ==
  CASE v.t = "str" -> v.s
    [] v.t = "num" ->
         IF v.n < 0 THEN <<"-">> \o NatToDigits(0 - v.n) ELSE NatToDigits(v.n)
    [] v.t = "null" -> <<"n", "u", "l", "l">>
    [] v.t = "undef" -> <<"u", "n", "d", "e", "f", "i", "n", "e", "d">>
    [] v.t = "nan" -> <<"N", "a", "N">>
    [] v.t = "bool" -> IF v.b THEN <<"t", "r", "u", "e">> ELSE <<"f", "a", "l", "s", "e">>
    [] OTHER -> <<"[", "o", "b", "j", "e", "c", "t", "]">>

\* a * b on numbers
Times(a, b) == IF a.t = "num" /\ b.t = "num" THEN Num(a.n * b.n) ELSE NaN

\* Math.max(a, b)
MathMax(a, b) ==
  LET x == Number(a)
      y == Number(b)
  IN IF x.t = "nan" \/ y.t = "nan" THEN NaN
     ELSE IF x.n >= y.n THEN x ELSE y

(***************************************************************************)
(* Conversation store and message log store.                               *)
(***************************************************************************)
\* prev.k of a stored summary, or of the fresh { chatId }
PrevField(C, id, k) ==
  IF id \in DOMAIN C THEN C[id][k]
  ELSE IF k = "chatId" THEN id ELSE Undef

\* Map.prototype.set
MapSet(M, k, v) == [x \in (DOMAIN M) \cup {k} |-> IF x = k THEN v ELSE M[x]]

UpsertLastTsOverwrite(C, a) == Or(a.ts, Num(0))

UpsertLastTs(C, a) ==
  MathMax(Or(PrevField(C, a.chatId, "lastTs"), Num(0)), Or(a.ts, Num(0)))

UpsertNameOverwrite(C, a) == Or(Or(a.name, a.phone), a.chatId)

UpsertName(C, a) ==
  Or(Or(Or(a.name, PrevField(C, a.chatId, "name")), a.phone), a.chatId)

\* the preview of the record with the highest timestamp
UpsertPreviewNewest(C, a) ==
  IF Number(Or(a.ts, Num(0))).n >= Number(Or(PrevField(C, a.chatId, "lastTs"), Num(0))).n
  THEN Nullish(Nullish(a.preview, PrevField(C, a.chatId, "preview")), Null)
  ELSE Nullish(PrevField(C, a.chatId, "preview"), Null)

\* preview ?? prev.preview ?? null
UpsertPreview(C, a) ==
  Nullish(Nullish(a.preview, PrevField(C, a.chatId, "preview")), Null)

\* a summary written from the arguments alone, what is stored being ignored
upsertChatFresh(C, a) ==
  MapSet(C, a.chatId,
    [chatId |-> a.chatId,
     name |-> Or(Or(a.name, a.phone), a.chatId),
     phone |-> Or(a.phone, EmptyStr),
     lastTs |-> MathMax(Num(0), Or(a.ts, Num(0))),
     avatarUrl |-> Nullish(a.avatarUrl, Null),
     preview |-> Nullish(a.preview, Null)])

\* upsertChat({ chatId, name, phone, ts, avatarUrl, preview })
upsertChat(C, a) ==
  MapSet(C, a.chatId,
    [chatId |-> a.chatId,
     name |-> UpsertName(C, a),
     phone |-> Or(Or(a.phone, PrevField(C, a.chatId, "phone")), EmptyStr),
     lastTs |-> UpsertLastTs(C, a),
     avatarUrl |-> Nullish(Nullish(a.avatarUrl, PrevField(C, a.chatId, "avatarUrl")), Null),
     preview |-> UpsertPreview(C, a)])

\* Messages.get(chatId) after the has/set of an empty array
LogOf(M, chatId) == IF chatId \in DOMAIN M THEN M[chatId] ELSE <<>>

PushNoDedup(arr, msg) == <<msg>> \o arr

PushAppend(arr, msg) ==
  IF \E i \in 1..Len(arr) : StrictEq(arr[i].id, msg.id) THEN arr
  ELSE arr \o <<msg>>

\* arr.find(x => x.id === msg.id) ? return : arr.unshift(msg)
PushInto(arr, msg) ==
  IF \E i \in 1..Len(arr) : StrictEq(arr[i].id, msg.id) THEN arr
  ELSE <<msg>> \o arr

\* pushMessage(chatId, msg)
pushMessage(M, chatId, msg) == MapSet(M, chatId, PushInto(LogOf(M, chatId), msg))

\* history of pushMessage calls per conversation, in call order
RecordPush(P, chatId, msg) == MapSet(P, chatId, LogOf(P, chatId) \o <<msg>>)

(***************************************************************************)
(* String built-ins used by the handlers.                                  *)
(***************************************************************************)
UpperChars ==
  <<"A", "B", "C", "D", "E", "F", "G", "H", "I", "J", "K", "L", "M",
    "N", "O", "P", "Q", "R", "S", "T", "U", "V", "W", "X", "Y", "Z">>

LowerChars ==
  <<"a", "b", "c", "d", "e", "f", "g", "h", "i", "j", "k", "l", "m",
    "n", "o", "p", "q", "r", "s", "t", "u", "v", "w", "x", "y", "z">>

\* the /i flag: characters compare by their lower-case form
LowerChar(c) ==
  IF \E i \in 1..26 : UpperChars[i] = c
  THEN LowerChars[CHOOSE i \in 1..26 : UpperChars[i] = c]
  ELSE c

LowerSeq(s) == [i \in 1..Len(s) |-> LowerChar(s[i])]

\* /pat/i.test(s) for a literal pattern: case-insensitive substring
RegexTestI(pat, s) ==
  \E i \in 1..(Len(s) - Len(pat) + 1) :
    LowerSeq(SubSeq(s, i, i + Len(pat) - 1)) = LowerSeq(pat)

\* s.trim()
RECURSIVE Trim(_)
Trim(s) ==
  IF s = <<>> THEN s
  ELSE IF s[1] = " " THEN Trim(Tail(s))
  ELSE IF s[Len(s)] = " " THEN Trim(SubSeq(s, 1, Len(s) - 1))
  ELSE s

\* s.replace(/\D/g, "")
RECURSIVE StripNonDigits(_)
StripNonDigits(s) ==
  IF s = <<>> THEN <<>>
  ELSE (IF IsDigit(s[1]) THEN <<s[1]>> ELSE <<>>) \o StripNonDigits(Tail(s))

\* s.split("@")[0]
RECURSIVE BeforeAt(_)
BeforeAt(s) ==
  IF s = <<>> \/ s[1] = "@" THEN <<>>
  ELSE <<s[1]>> \o BeforeAt(Tail(s))

\* s.slice(0, n)
Slice(s, n) == SubSeq(s, 1, IF Len(s) < n THEN Len(s) ELSE n)

(***************************************************************************)
(* Payload normalizer.                                                     *)
(***************************************************************************)
S_message == <<"m", "e", "s", "s", "a", "g", "e">>
S_ReceivedCallback == <<"R", "e", "c", "e", "i", "v", "e", "d", "C", "a", "l", "l", "b", "a", "c", "k">>
S_chat == <<"c", "h", "a", "t">>
S_image == <<"i", "m", "a", "g", "e">>
S_cus == <<"@", "c", ".", "u", "s">>

\* Array.isArray(x)
IsArray(x) == x.t = "arr"

\* typeof x === "object" for a truthy x
IsObjectType(x) == x.t \in {"obj", "arr"}

\* JSON texts the model delivers as string bodies, with their parse
ParseTable ==
  { <<<<"n", "u", "l", "l">>, Null>>,
    <<<<"{", "\"", "p", "h", "o", "n", "e", "\"", ":", "\"", "5", "5", "1", "1", "\"", "}">>,
      Obj(<< <<"phone", Str(<<"5", "5", "1", "1">>)>> >>)>> }

\* try { b = JSON.parse(b) } catch {}
TryParse(b) ==
  IF b.t = "str" /\ \E e \in ParseTable : e[1] = b.s
  THEN (CHOOSE e \in ParseTable : e[1] = b.s)[2]
  ELSE b

\* the candidates returned, or the TypeError of a property read on null
Returned(seq) == [threw |-> FALSE, out |-> seq]
Thrown == [threw |-> TRUE, out |-> <<>>]

\* [X] or X of { event: "message", data: X }
DataItems(d) == IF IsArray(d) THEN d.e ELSE <<d>>

\* x.chatId || x.from || x.jid || x.remoteJid || x.phone
hasId(x) ==
  Truthy(Or(Or(Or(Or(Get(x, "chatId"), Get(x, "from")), Get(x, "jid")),
               Get(x, "remoteJid")), Get(x, "phone")))

hasContent(x) ==
  \/ Truthy(Get(x, "body"))
  \/ Get(x, "text").t = "str"
  \/ /\ Truthy(Get(x, "text"))
     /\ IsObjectType(Get(x, "text"))
     /\ Truthy(Or(Get(Get(x, "text"), "message"), Get(Get(x, "text"), "caption")))
  \/ Truthy(Get(x, "caption"))
  \/ Truthy(Get(x, "imageUrl"))
  \/ Truthy(Get(x, "documentUrl"))

\* the values x[k] for k of Object.keys(x), in key order
Children(x) == IF x.t = "arr" THEN x.e ELSE [i \in 1..Len(x.p) |-> x.p[i][2]]

\* a walk that collects on the identity alone
WalkSelfIdOnly(x) == IF hasId(x) THEN <<x>> ELSE <<>>

\* whether walk pushes x itself
WalkSelf(x) == IF hasId(x) /\ hasContent(x) THEN <<x>> ELSE <<>>

RECURSIVE walk(_)
RECURSIVE walkAll(_)
\* (function walk(x) { ... })(b)
walk(x) ==
  IF ~Truthy(x) \/ ~IsObjectType(x) THEN <<>>
  ELSE WalkSelf(x) \o walkAll(Children(x))

walkAll(vs) == IF vs = <<>> THEN <<>> ELSE walk(Head(vs)) \o walkAll(Tail(vs))

\* the envelope tests of the walk normalizer, in source order
IsShape1(b) == StrictEq(Get(b, "type"), Str(S_message)) /\ Truthy(Get(b, "message"))
IsShape2(b) == IsArray(Get(b, "messages"))
IsShape3(b) == StrictEq(Get(b, "event"), Str(S_message)) /\ Truthy(Get(b, "data"))
IsShape4(b) ==
  /\ Truthy(Get(b, "chatId"))
  /\ Truthy(Or(Or(Or(Or(Get(b, "body"), Get(b, "text")), Get(b, "caption")),
                  Get(b, "imageUrl")), Get(b, "documentUrl")))
IsShape5(b) ==
  /\ Truthy(Get(b, "msg"))
  /\ Truthy(Or(Get(Get(b, "msg"), "chatId"), Get(Get(b, "msg"), "from")))
IsShape6(b) ==
  \/ StrictEq(Get(b, "type"), Str(S_ReceivedCallback))
  \/ Truthy(Get(b, "phone"))
  \/ (Truthy(Get(b, "text")) /\ IsObjectType(Get(b, "text")))

\* the if-chain of normalizeIncoming after the parse
ShapeChain(b) ==
  IF IsShape1(b) THEN <<Get(b, "message")>>
  ELSE IF IsShape2(b) THEN Get(b, "messages").e
  ELSE IF IsShape3(b) THEN DataItems(Get(b, "data"))
  ELSE IF IsShape4(b) THEN <<b>>
  ELSE IF IsShape5(b) THEN <<Get(b, "msg")>>
  ELSE IF IsShape6(b) THEN <<b>>
  ELSE walk(b)

\* normalizeIncoming(b) of part_000 and part_001
normalizeIncoming(b) ==
  IF ~Truthy(b) THEN Returned(<<>>)
  ELSE IF Throws(TryParse(b)) THEN Thrown
  ELSE Returned(ShapeChain(TryParse(b)))

\* normalizeIncoming(body) of server.js: five shapes, no parse, no walk
IsShape4A(b) ==
  /\ Truthy(Get(b, "chatId"))
  /\ Truthy(Or(Or(Get(b, "body"), Get(b, "text")), Get(b, "caption")))

normalizeIncomingA(b) ==
  IF ~Truthy(b) THEN Returned(<<>>)
  ELSE IF IsShape1(b) THEN Returned(<<Get(b, "message")>>)
  ELSE IF IsShape2(b) THEN Returned(Get(b, "messages").e)
  ELSE IF IsShape3(b) THEN Returned(DataItems(Get(b, "data")))
  ELSE IF IsShape4A(b) THEN Returned(<<b>>)
  ELSE IF IsShape5(b) THEN Returned(<<Get(b, "msg")>>)
  ELSE Returned(<<>>)

(***************************************************************************)
(* Event classifier and field extractor of the webhook handlers.  A        *)
(* handler's working state is S = [C, M, P, threw]: the two stores, the    *)
(* history of pushMessage calls, and whether a TypeError ended the loop.   *)
(***************************************************************************)
\* String(m.type || m.messageType || "").trim()
RawType(m) == Trim(String(Or(Or(Get(m, "type"), Get(m, "messageType")), EmptyStr)))

\* the six noise tests of part_001
IsNoise(rawType) ==
  \/ RegexTestI(<<"S", "t", "a", "t", "u", "s", "C", "a", "l", "l", "b", "a", "c", "k">>, rawType)
  \/ RegexTestI(<<"P", "r", "e", "s", "e", "n", "c", "e">>, rawType)
  \/ RegexTestI(<<"T", "y", "p", "i", "n", "g">>, rawType)
  \/ RegexTestI(<<"A", "c", "k">>, rawType)
  \/ RegexTestI(<<"R", "e", "a", "d">>, rawType)
  \/ RegexTestI(<<"D", "e", "l", "i", "v", "e", "r", "e", "d">>, rawType)

ChatIdOrUnknown(m) ==
  Or(Or(Or(Or(Get(m, "chatId"), Get(m, "from")), Get(m, "jid")), Get(m, "remoteJid")),
     Str(StripNonDigits(String(Get(m, "phone"))) \o S_cus))

\* m.chatId || m.from || m.jid || m.remoteJid || (m.phone ? `${digits}@c.us` : null)
ChatIdOf(m) ==
  Or(Or(Or(Or(Get(m, "chatId"), Get(m, "from")), Get(m, "jid")), Get(m, "remoteJid")),
     IF Truthy(Get(m, "phone"))
     THEN Str(StripNonDigits(String(Get(m, "phone"))) \o S_cus)
     ELSE Null)

\* typeof chatId === "string" ? chatId.split("@")[0] : ""
LocalPart(chatId) == IF chatId.t = "str" THEN Str(BeforeAt(chatId.s)) ELSE EmptyStr

PhoneOf(chatId, m) == Or(LocalPart(chatId), Or(Get(m, "phone"), EmptyStr))

NameOf(m, phone) ==
  Or(Or(Or(Get(m, "senderName"), Get(m, "chatName")), Get(m, "name")), phone)

AvatarOf(m) ==
  Or(Or(Or(Or(Get(m, "senderPhoto"), Get(m, "photo")), Get(m, "profilePicUrl")),
        Get(m, "avatarUrl")), Null)

\* (m.moment && Number(m.moment)) || (m.timestamp && Number(m.timestamp) * 1000) || Date.now()
TsOf(m, now) ==
  Or(Or(And(Get(m, "moment"), Number(Get(m, "moment"))),
        And(Get(m, "timestamp"), Times(Number(Get(m, "timestamp")), Num(1000)))),
     Num(now))

\* (Number(m.timestamp || m.t) * 1000) || Date.now()
TsOfSeconds(m, now) ==
  Or(Times(Number(Or(Get(m, "timestamp"), Get(m, "t"))), Num(1000)), Num(now))

TextOf(m) ==
  Or(Or(Or(Get(m, "body"),
           IF Get(m, "text").t = "str" THEN Get(m, "text")
           ELSE Or(Or(Get(Get(m, "text"), "message"), Get(Get(m, "text"), "caption")),
                   EmptyStr)),
        Get(m, "caption")),
     EmptyStr)

\* m.body || m.text || m.caption || ""
TextOfPlain(m) == Or(Or(Or(Get(m, "body"), Get(m, "text")), Get(m, "caption")), EmptyStr)

MediaOf(m) ==
  Or(Or(Or(Get(m, "mediaUrl"), Get(m, "imageUrl")), Get(m, "documentUrl")), Null)

ImageOrChat(m) == IF Truthy(Get(m, "imageUrl")) THEN Str(S_image) ELSE Str(S_chat)

\* part_000: m.type === "ReceivedCallback" ? "chat" : m.messageType || m.type || (...)
TypeOf000(m) ==
  IF StrictEq(Get(m, "type"), Str(S_ReceivedCallback)) THEN Str(S_chat)
  ELSE Or(Or(Get(m, "messageType"), Get(m, "type")), ImageOrChat(m))

\* part_001: rawType === "ReceivedCallback" ? "chat" : m.messageType || rawType || (...)
TypeOf001(m) ==
  IF RawType(m) = S_ReceivedCallback THEN Str(S_chat)
  ELSE Or(Or(Get(m, "messageType"), Str(RawType(m))), ImageOrChat(m))

\* server.js: m.type || m.messageType || (m.imageUrl ? "image" : "chat")
TypeOfPlain(m) == Or(Or(Get(m, "type"), Get(m, "messageType")), ImageOrChat(m))

\* (text || "").slice is a function only when text is a string
SliceThrows(text) == Or(text, EmptyStr).t # "str"

\* type === "chat" ? text.slice(0, 120) : `[${type}] ${text.slice(0, 80)}`
PreviewText(type, text) ==
  IF StrictEq(type, Str(S_chat)) THEN Str(Slice(Or(text, EmptyStr).s, 120))
  ELSE Str(<<"[">> \o String(type) \o <<"]", " ">> \o Slice(Or(text, EmptyStr).s, 80))

\* part_001: text || (mediaUrl ? `[${type}]` : "")
PreviewText001(type, text, mediaUrl) ==
  Or(text, IF Truthy(mediaUrl) THEN Str(<<"[">> \o String(type) \o <<"]">>) ELSE EmptyStr)

\* { type, text: previewText }
Preview(type, text) == Obj(<< <<"type", type>>, <<"text", text>> >>)

\* `${chatId}-${ts}`
SynthId(chatId, ts) == Str(String(chatId) \o <<"-">> \o String(ts))

\* !!m.fromMe
FromMe(m) == Bool(Truthy(Get(m, "fromMe")))

\* upsertChat then pushMessage on the handler's working state
Ingest(S, a, msg) ==
  [S EXCEPT !.C = upsertChat(S.C, a),
            !.M = pushMessage(S.M, a.chatId, msg),
            !.P = RecordPush(S.P, a.chatId, msg)]

\* one iteration of the webhook loop of part_000
Step000(S, m, now) ==
  LET chatId == ChatIdOf(m)
      phone == PhoneOf(chatId, m)
      ts == TsOf(m, now)
      type == TypeOf000(m)
      text == TextOf(m)
  IN IF ~Truthy(chatId) THEN S
     ELSE IF SliceThrows(text) THEN [S EXCEPT !.threw = TRUE]
     ELSE Ingest(S,
            [chatId |-> chatId, name |-> NameOf(m, phone), phone |-> phone, ts |-> ts,
             avatarUrl |-> AvatarOf(m),
             preview |-> Preview(type, PreviewText(type, text))],
            [id |-> Or(Or(Or(Get(m, "id"), Get(m, "messageId")), Get(Get(m, "key"), "id")),
                       SynthId(chatId, ts)),
             chatId |-> chatId, fromMe |-> FromMe(m), type |-> type, text |-> text,
             mediaUrl |-> MediaOf(m), ts |-> ts])

\* one iteration of the webhook loop of part_001
Step001(S, m, now) ==
  LET chatId == ChatIdOf(m)
      phone == PhoneOf(chatId, m)
      ts == TsOf(m, now)
      type == TypeOf001(m)
      text == TextOf(m)
  IN IF IsNoise(RawType(m)) THEN S
     ELSE IF ~Truthy(chatId) THEN S
     ELSE Ingest(S,
            [chatId |-> chatId, name |-> NameOf(m, phone), phone |-> phone, ts |-> ts,
             avatarUrl |-> AvatarOf(m),
             preview |-> Preview(type, PreviewText001(type, text, MediaOf(m)))],
            [id |-> Or(Get(m, "id"), Str(String(Num(now)))),
             fromMe |-> FromMe(m), type |-> type, text |-> text,
             mediaUrl |-> MediaOf(m), ts |-> ts])

\* one iteration of the webhook loop of server.js:37-60
StepA(S, m, now) ==
  LET chatId == Or(Or(Get(m, "chatId"), Get(m, "from")), Get(m, "jid"))
      phone == Or(LocalPart(chatId), EmptyStr)
      ts == TsOfSeconds(m, now)
      type == TypeOfPlain(m)
      text == TextOfPlain(m)
  IN IF ~Truthy(chatId) THEN S
     ELSE IF SliceThrows(text) THEN [S EXCEPT !.threw = TRUE]
     ELSE Ingest(S,
            [chatId |-> chatId,
             name |-> Or(Or(Get(m, "senderName"), Get(m, "pushname")), phone),
             phone |-> phone, ts |-> ts,
             avatarUrl |-> Or(Or(Get(m, "senderProfilePicUrl"), Get(m, "profilePicUrl")), Null),
             preview |-> Preview(type, PreviewText(type, text))],
            [id |-> Or(Or(Get(m, "id"), Get(Get(m, "key"), "id")), SynthId(chatId, ts)),
             chatId |-> chatId, fromMe |-> FromMe(m), type |-> type, text |-> text,
             mediaUrl |-> MediaOf(m), ts |-> ts])

\* the body of the webhook of server.js:148-177, on m = e.message
StepB(S, m, now) ==
  LET chatId == Get(m, "chatId")
      ts == Or(Times(Number(Get(m, "timestamp")), Num(1000)), Num(now))
      type == Get(m, "type")
      text == Or(Get(m, "body"), EmptyStr)
  IN IF ~Truthy(chatId) THEN S
     ELSE IF chatId.t # "str" \/ SliceThrows(text) THEN [S EXCEPT !.threw = TRUE]
     ELSE Ingest(S,
            [chatId |-> chatId,
             name |-> Or(Get(m, "senderName"), Str(BeforeAt(chatId.s))),
             phone |-> Str(BeforeAt(chatId.s)), ts |-> ts,
             avatarUrl |-> Or(Get(m, "senderProfilePicUrl"), Null),
             preview |-> Preview(type, PreviewText(type, text))],
            [id |-> Get(m, "id"), chatId |-> chatId, fromMe |-> FromMe(m), type |-> type,
             text |-> text, mediaUrl |-> Or(Get(m, "mediaUrl"), Null), ts |-> ts])

Revisions == {"part_000", "part_001", "server_a", "server_b"}

\* the loop body of revision r
StepOf(r, S, m, now) ==
  CASE r = "part_000" -> Step000(S, m, now)
    [] r = "part_001" -> Step001(S, m, now)
    [] r = "server_a" -> StepA(S, m, now)
    [] OTHER -> StepB(S, m, now)

RECURSIVE RunLoop(_, _, _, _)
\* for (const m of incoming) { ... }: a property read on a null or undefined
\* candidate throws and ends the loop
RunLoop(r, S, cands, now) ==
  IF cands = <<>> \/ S.threw THEN S
  ELSE IF Throws(Head(cands)) THEN [S EXCEPT !.threw = TRUE]
  ELSE RunLoop(r, StepOf(r, S, Head(cands), now), Tail(cands), now)

(***************************************************************************)
(* Webhook bodies delivered to the handlers.                               *)
(***************************************************************************)
ChatA == Str(<<"5", "5", "1", "1", "@", "c", ".", "u", "s">>)
ChatB == Str(<<"5", "5", "2", "2", "@", "c", ".", "u", "s">>)

MsgHi == Obj(<< <<"chatId", ChatA>>, <<"body", Str(<<"h", "i">>)>>, <<"timestamp", Num(1)>> >>)

MsgM1 ==
  Obj(<< <<"chatId", ChatA>>, <<"body", Str(<<"h", "i">>)>>, <<"id", Str(<<"m", "1">>)>>,
         <<"timestamp", Num(2)>>, <<"senderName", Str(<<"A", "n", "n">>)>> >>)

MsgM2 ==
  Obj(<< <<"from", ChatB>>, <<"text", Str(<<"y", "o">>)>>, <<"id", Str(<<"m", "2">>)>>,
         <<"timestamp", Num(1)>> >>)

MsgM3 ==
  Obj(<< <<"chatId", ChatA>>, <<"body", Str(<<"o", "l", "d">>)>>, <<"id", Str(<<"m", "3">>)>>,
         <<"timestamp", Num(1)>> >>)

MsgOrphan == Obj(<< <<"body", Str(<<"o", "r", "p", "h", "a", "n">>)>>, <<"id", Str(<<"m", "9">>)>> >>)

MsgPic ==
  Obj(<< <<"chatId", ChatB>>, <<"caption", Str(<<"p", "i", "c">>)>>, <<"imageUrl", Str(<<"u">>)>>,
         <<"id", Str(<<"m", "4">>)>>, <<"timestamp", Num(3)>> >>)

BodyShape1 == Obj(<< <<"type", Str(S_message)>>, <<"message", MsgHi>> >>)
BodyMessages == Obj(<< <<"messages", Arr(<<MsgM1, MsgM2>>)>> >>)
BodyMessagesNull == Obj(<< <<"messages", Arr(<<Null, MsgM3>>)>> >>)
BodyMessagesOrphan == Obj(<< <<"messages", Arr(<<MsgOrphan, MsgM3, Num(5)>>)>> >>)
BodyEventData == Obj(<< <<"event", Str(S_message)>>, <<"data", MsgPic>> >>)
BodyEventArray == Obj(<< <<"event", Str(S_message)>>, <<"data", Arr(<<MsgM2, MsgPic>>)>> >>)

\* the id m1 again, with other content and a newer timestamp
BodyDirect ==
  Obj(<< <<"chatId", ChatA>>, <<"body", Str(<<"d", "u", "p">>)>>, <<"id", Str(<<"m", "1">>)>>,
         <<"timestamp", Num(3)>> >>)

\* no name, no timestamp
BodyMsg ==
  Obj(<< <<"msg", Obj(<< <<"from", ChatA>>, <<"body", Str(<<"x">>)>>, <<"id", Str(<<"m", "5">>)>> >>)>> >>)

BodyReceived ==
  Obj(<< <<"type", Str(S_ReceivedCallback)>>, <<"phone", Str(<<"5", "5", " ", "1", "1">>)>>,
         <<"text", Obj(<< <<"message", Str(<<"o", "i">>)>> >>)>>, <<"messageId", Str(<<"m", "6">>)>>,
         <<"moment", Num(2000)>>, <<"senderPhoto", Str(<<"p">>)>> >>)

BodyPresence == Obj(<< <<"type", Str(<<"P", "r", "e", "s", "e", "n", "c", "e", "C", "h", "a", "t", "C", "a", "l", "l", "b", "a", "c", "k">>)>>, <<"phone", Str(<<"5", "5", "1", "1">>)>> >>)

BodyStatus ==
  Obj(<< <<"type", Str(<<"M", "e", "s", "s", "a", "g", "e", "S", "t", "a", "t", "u", "s", "C", "a", "l", "l", "b", "a", "c", "k">>)>>, <<"phone", Str(<<"5", "5", "2", "2">>)>>,
         <<"status", Str(<<"R", "E", "A", "D">>)>> >>)

BodyTyping ==
  Obj(<< <<"type", Str(S_message)>>,
         <<"message", Obj(<< <<"chatId", ChatA>>, <<"type", Str(<<"t", "y", "p", "i", "n", "g">>)>> >>)>> >>)

BodyNoiseArray ==
  Obj(<< <<"messages",
           Arr(<< Obj(<< <<"chatId", ChatA>>, <<"type", Str(<<"D", "e", "l", "i", "v", "e", "r", "e", "d", "C", "a", "l", "l", "b", "a", "c", "k">>)>> >>),
                  Obj(<< <<"from", ChatB>>, <<"messageType", Str(<<" ", "a", "c", "k", " ">>)>> >>) >>)>> >>)

BodyWalk ==
  Obj(<< <<"payload",
           Obj(<< <<"items",
                    Arr(<< Obj(<< <<"jid", ChatA>>, <<"caption", Str(<<"c">>)>>,
                                  <<"id", Str(<<"m", "7">>)>> >>),
                           Obj(<< <<"meta", Obj(<< <<"remoteJid", ChatB>>,
                                                   <<"imageUrl", Str(<<"u">>)>> >>)>> >>) >>)>>,
                  <<"note", Obj(<< <<"from", ChatB>> >>)>> >>)>>,
         <<"extra", Obj(<< <<"text", Str(<<"n", "o", " ", "i", "d">>)>> >>)>> >>)

BodyWalkRoot ==
  Obj(<< <<"from", ChatB>>, <<"body", Str(<<"r", "o", "o", "t">>)>>, <<"id", Str(<<"m", "8">>)>>,
         <<"quoted", Obj(<< <<"jid", ChatA>>, <<"text", Str(<<>>)>>, <<"id", Str(<<"m", "3">>)>> >>)>> >>)

BodyNone == Obj(<< <<"foo", Str(<<"b", "a", "r">>)>> >>)
BodyStringBad == Str(<<"o", "o", "p", "s">>)
BodyStringJson ==
  Str(<<"{", "\"", "p", "h", "o", "n", "e", "\"", ":", "\"", "5", "5", "1", "1", "\"", "}">>)
BodyStringNull == Str(<<"n", "u", "l", "l">>)

\* matches shapes 1, 2 and 3
BodyMulti ==
  Obj(<< <<"type", Str(S_message)>>, <<"message", MsgM3>>,
         <<"messages", Arr(<<MsgM2>>)>>, <<"event", Str(S_message)>>, <<"data", MsgPic>> >>)

\* matches shapes 5 and 6
BodyMsgPhone ==
  Obj(<< <<"msg", Obj(<< <<"chatId", ChatB>>, <<"body", Str(<<"i", "n">>)>>, <<"id", Str(<<"m", "2">>)>>,
                         <<"timestamp", Num(2)>> >>)>>,
         <<"phone", Str(<<"5", "5", "1", "1">>)>> >>)

\* a text object: matches shapes 4 and 6
BodyTextObject ==
  Obj(<< <<"chatId", ChatA>>, <<"text", Obj(<< <<"caption", Str(<<"c", "a", "p">>)>> >>)>>,
         <<"documentUrl", Str(<<"d">>)>>, <<"type", Str(<<"d", "o", "c", "u", "m", "e", "n", "t">>)>>, <<"id", Str(<<"m", "4">>)>> >>)

\* texts longer than the preview: 121 characters of chat, 81 of a caption
BodyLong ==
  Obj(<< <<"chatId", ChatA>>, <<"body", Str([i \in 1..121 |-> "x"])>>,
         <<"id", Str(<<"m", "9">>)>>, <<"timestamp", Num(3)>> >>)

BodyLongPic ==
  Obj(<< <<"chatId", ChatB>>, <<"messageType", Str(S_image)>>,
         <<"caption", Str([i \in 1..81 |-> "y"])>>, <<"imageUrl", Str(<<"u">>)>>,
         <<"id", Str(<<"m", "5">>)>> >>)

Bodies ==
  { BodyLong, BodyLongPic, BodyShape1, BodyMessages, BodyMessagesNull, BodyMessagesOrphan, BodyEventData,
    BodyEventArray, BodyDirect, BodyMsg, BodyReceived, BodyPresence, BodyStatus,
    BodyTyping, BodyNoiseArray, BodyWalk, BodyWalkRoot, BodyNone, BodyStringBad,
    BodyStringJson, BodyStringNull, BodyMulti, BodyMsgPhone, BodyTextObject, Undef }

(***************************************************************************)
(* The state machine.                                                      *)
(***************************************************************************)
MaxDeliveries == 1
MaxHookDeliveries == 2
MaxTicks == 1

\* Date.now() after c ticks of the clock
NowMs(c) == 1500 + (1000 * c)

NoMap == [x \in {} |-> Undef]

Idle ==
  [op |-> "none", body |-> Undef, cands |-> <<>>, resp |-> "none", threw |-> FALSE,
   args |-> Undef, out |-> Undef]

\* a client that has not yet asked for a page of a conversation's log
ReaderIdle ==
  [pc |-> "idle", cursor |-> Str(<<"0">>), size |-> Undef, got |-> <<>>, start |-> <<>>,
   reads |-> 0]

Init ==
  /\ rev \in Revisions
  /\ reader = ReaderIdle
  /\ Chats = NoMap
  /\ Messages = NoMap
  /\ Pushed = NoMap
  /\ last = Idle
  /\ nOps = 0
  /\ clock = 0
  /\ bf = [pc |-> "idle", todo |-> <<>>, cursor |-> Null, pages |-> 0, resp |-> "none",
           count |-> 0, answers |-> <<>>, chats |-> <<>>, lost |-> FALSE,
           processed |-> {}, got |-> Undef]
  /\ configured \in BOOLEAN

\* the handler's working state on the current stores
Work == [C |-> Chats, M |-> Messages, P |-> Pushed, threw |-> FALSE]

\* the stores and the reply after a delivery
Delivered(body, cands, S, resp) ==
  /\ Chats' = S.C
  /\ Messages' = S.M
  /\ Pushed' = S.P
  /\ last' = [op |-> "webhook", body |-> body, cands |-> cands, resp |-> resp,
              threw |-> S.threw, args |-> Undef, out |-> Undef]
  /\ nOps' = nOps + 1
  /\ UNCHANGED <<rev, clock, bf, configured, reader>>

\* part_000 and part_001: body = LAST_HOOK.body, parsed when a string;
\* incoming = normalizeIncoming(body || {})
HookBody(body) == Or(TryParse(Or(body, Null)), Obj(<<>>))

\* the handlers of part_000 and part_001 call no res method: a delivery that
\* runs to the end is left unanswered, one that throws is unanswered or gets
\* the framework's error reply
Webhook000(body) ==
  /\ rev = "part_000"
  /\ LET n == normalizeIncoming(HookBody(body))
         S == IF n.threw THEN [Work EXCEPT !.threw = TRUE]
              ELSE RunLoop(rev, Work, n.out, NowMs(clock))
     IN \E resp \in (IF S.threw THEN {"none", "error"} ELSE {"none"}) :
          Delivered(body, n.out, S, resp)

Webhook001(body) ==
  /\ rev = "part_001"
  /\ LET n == normalizeIncoming(HookBody(body))
         S == IF n.threw THEN [Work EXCEPT !.threw = TRUE]
              ELSE RunLoop(rev, Work, n.out, NowMs(clock))
     IN \E resp \in (IF S.threw THEN {"none", "error"} ELSE {"none"}) :
          Delivered(body, n.out, S, resp)

\* server.js:27-67: every path, the catch included, replies { ok: true }
WebhookA(body) ==
  /\ rev = "server_a"
  /\ LET n == normalizeIncomingA(body)
     IN Delivered(body, n.out, RunLoop(rev, Work, n.out, NowMs(clock)), "ok")

\* server.js:141-184: only { type: "message", message } is read
WebhookB(body) ==
  /\ rev = "server_b"
  /\ LET cands == IF IsShape1(body) THEN <<Get(body, "message")>> ELSE <<>>
     IN Delivered(body, cands, RunLoop(rev, Work, cands, NowMs(clock)), "ok")

\* time passes between requests
Tick ==
  /\ clock < MaxTicks
  /\ clock' = clock + 1
  /\ UNCHANGED <<rev, Chats, Messages, Pushed, last, nOps, bf, configured, reader>>

(***************************************************************************)
(* The two store functions called directly, with arguments of every kind   *)
(* (present, undefined, null, empty, zero):  SpecStore.                    *)
(***************************************************************************)
MaxCalls == 3

PreviewHi == Preview(Str(S_chat), Str(<<"h", "i">>))
PreviewPic == Preview(Str(S_image), Str(<<"[", "i", "m", "a", "g", "e", "]", " ", "x">>))

\* name, phone, avatarUrl and preview of an upsertChat call
FieldProfiles ==
  { [name |-> Undef, phone |-> Undef, avatarUrl |-> Undef, preview |-> Undef],
    [name |-> Null, phone |-> Null, avatarUrl |-> Null, preview |-> Null],
    [name |-> EmptyStr, phone |-> EmptyStr, avatarUrl |-> EmptyStr, preview |-> EmptyStr],
    [name |-> Str(<<"A", "n", "n">>), phone |-> Str(<<"5", "5", "1", "1">>), avatarUrl |-> Str(<<"p">>),
     preview |-> PreviewHi],
    [name |-> Str(<<"B", "o", "b">>), phone |-> Undef, avatarUrl |-> Null, preview |-> PreviewPic] }

TsValues == {Undef, Num(0), Num(1000), Num(2000), Num(0 - 1000), NaN}

UpsertArgs ==
  { [chatId |-> ChatA, name |-> f.name, phone |-> f.phone, ts |-> ts,
     avatarUrl |-> f.avatarUrl, preview |-> f.preview] :
      f \in FieldProfiles, ts \in TsValues }
  \cup
  { [chatId |-> ChatB, name |-> Undef, phone |-> Undef, ts |-> ts,
     avatarUrl |-> Undef, preview |-> Undef] : ts \in {Undef, Num(1000)} }

PushArgs ==
  { [id |-> id, chatId |-> ChatA, fromMe |-> Bool(FALSE), type |-> Str(S_chat),
     text |-> Str(String(ts)), mediaUrl |-> Null, ts |-> ts] :
      id \in {Str(<<"m", "1">>), Str(<<"m", "2">>), Undef}, ts \in {Num(1000), Num(2000)} }
  \cup
  { [id |-> Str(<<"m", "1">>), chatId |-> ChatB, fromMe |-> Bool(TRUE), type |-> Str(S_image),
     text |-> EmptyStr, mediaUrl |-> Str(<<"u">>), ts |-> Num(1000)] }

UpsertCall(a) ==
  /\ nOps < MaxCalls
  /\ Chats' = upsertChat(Chats, a)
  /\ last' = [Idle EXCEPT !.op = "upsertChat", !.args = a]
  /\ nOps' = nOps + 1
  /\ UNCHANGED <<rev, Messages, Pushed, clock, bf, configured, reader>>

PushCall(msg) ==
  /\ nOps < MaxCalls
  /\ Messages' = pushMessage(Messages, msg.chatId, msg)
  /\ Pushed' = RecordPush(Pushed, msg.chatId, msg)
  /\ last' = [Idle EXCEPT !.op = "pushMessage", !.args = msg]
  /\ nOps' = nOps + 1
  /\ UNCHANGED <<rev, Chats, clock, bf, configured, reader>>

InitStore == Init /\ rev = "part_000" /\ configured

NextStore ==
  \/ \E a \in UpsertArgs : UpsertCall(a)
  \/ \E msg \in PushArgs : PushCall(msg)

SpecStore == InitStore /\ [][NextStore]_vars

(***************************************************************************)
(* Backfill (part_000 and server.js:188-246).  The handler is async: it    *)
(* yields at each upstream call, so a run is one action per await.  The    *)
(* upstream's answers are the environment's choice.                        *)
(***************************************************************************)
MaxPages == 1

UpMsgA ==
  Obj(<< <<"id", Str(<<"m", "1">>)>>, <<"body", Str(<<"h", "i", "s", "t">>)>>, <<"timestamp", Num(1)>>,
         <<"type", Str(S_chat)>> >>)

UpMsgB ==
  Obj(<< <<"key", Obj(<< <<"id", Str(<<"k", "2">>)>> >>)>>, <<"caption", Str(<<"p", "i", "c">>)>>,
         <<"imageUrl", Str(<<"u">>)>>, <<"t", Num(3)>>, <<"fromMe", Bool(TRUE)>> >>)

UpMsgC == Obj(<< <<"id", Str(<<"m", "3">>)>>, <<"body", Str(<<"m", "o", "r", "e">>)>>, <<"type", Str(S_chat)>> >>)

\* a record in the provider's callback format, its text an object
UpMsgObj ==
  Obj(<< <<"id", Str(<<"m", "7">>)>>, <<"text", Obj(<< <<"message", Str(<<"o", "i">>)>> >>)>>,
         <<"timestamp", Num(3)>> >>)

\* answers of the list-conversations endpoints
ChatLists ==
  { Arr(<<>>),
    Arr(<< Obj(<< <<"id", ChatA>>, <<"name", Str(<<"A", "n", "n">>)>>,
                  <<"profilePicUrl", Str(<<"p">>)>> >>) >>),
    Arr(<< Obj(<< <<"name", Str(<<"n", "o", "b", "o", "d", "y">>)>> >>), Obj(<< <<"id", ChatB>> >>),
           Obj(<< <<"id", ChatA>> >>) >>),
    Obj(<< <<"chats", Arr(<< Obj(<< <<"chatId", ChatB>>, <<"pushname", Str(<<"B", "o", "b">>)>> >>) >>)>> >>) }

\* answers of the list-messages endpoints
PageAnswers ==
  { Obj(<< <<"messages", Arr(<<UpMsgA, UpMsgB>>)>>, <<"nextCursor", Str(<<"c", "1">>)>> >>),
    Obj(<< <<"messages", Arr(<<UpMsgC>>)>> >>),
    Obj(<< <<"items", Arr(<<UpMsgB>>)>>, <<"nextCursor", Null>> >>),
    Arr(<<UpMsgA>>),
    Arr(<<Null>>),
    Obj(<< <<"messages", Arr(<<UpMsgObj>>)>> >>) }



\* Array.isArray(data) ? data : (data.chats || data.contacts || data.items || [])
ChatsOf000(data) ==
  IF IsArray(data) THEN data
  ELSE Or(Or(Or(Get(data, "chats"), Get(data, "contacts")), Get(data, "items")), Arr(<<>>))

\* an endpoint's answer: the status is a success or not, and body is the
\* parsed JSON, null when the body does not parse
Answer(ok, body) == [ok |-> ok, body |-> body]

\* zGetJson(url): throws on a non-success status, else returns the body
zGetJson(ans) == IF ans.ok THEN [threw |-> FALSE, val |-> ans.body] ELSE [threw |-> TRUE, val |-> Undef]

RECURSIVE fetchAllChats(_)
\* fetchAllChats(): the endpoints in order; data.chats of a null body throws
\* and is caught like a failed request
fetchAllChats(answers) ==
  IF answers = <<>> THEN Arr(<<>>)
  ELSE LET r == zGetJson(Head(answers))
       IN IF r.threw \/ Throws(r.val) THEN fetchAllChats(Tail(answers))
          ELSE IF IsArray(ChatsOf000(r.val)) THEN ChatsOf000(r.val)
          ELSE fetchAllChats(Tail(answers))

ListA == Arr(<< Obj(<< <<"id", ChatA>>, <<"name", Str(<<"A", "n", "n">>)>>,
                       <<"profilePicUrl", Str(<<"p">>)>> >>) >>)
ListB == Obj(<< <<"chats", Arr(<< Obj(<< <<"chatId", ChatB>>, <<"pushname", Str(<<"B", "o", "b">>)>> >>) >>)>> >>)
ListMixed ==
  Obj(<< <<"contacts", Arr(<< Obj(<< <<"name", Str(<<"n", "o", "b", "o", "d", "y">>)>> >>),
                              Obj(<< <<"id", ChatB>> >>), Obj(<< <<"id", ChatA>> >>) >>)>> >>)
Failed == Answer(FALSE, Null)

\* the answers of /chats, /client/chats and /contacts to one fetchAllChats
ListAnswers ==
  { <<Answer(TRUE, ListA), Answer(TRUE, ListB), Failed>>,
    <<Failed, Answer(TRUE, ListB), Answer(TRUE, ListA)>>,
    <<Failed, Failed, Failed>>,
    <<Answer(TRUE, Obj(<< <<"error", Str(<<"x">>)>> >>)), Answer(TRUE, ListA), Failed>>,
    <<Answer(TRUE, Null), Failed, Answer(TRUE, ListMixed)>>,
    <<Answer(TRUE, Obj(<< <<"chats", Str(<<"x">>)>> >>)), Answer(TRUE, Obj(<< <<"items", ListA>> >>)), Failed>> }

\* Array.isArray(data) ? data : (data.messages || data.items || [])
MessagesOf000(data) ==
  IF IsArray(data) THEN data
  ELSE Or(Or(Get(data, "messages"), Get(data, "items")), Arr(<<>>))

\* c.id || c.chatId || c.jid, and c.id
BfChatId(r, c) ==
  IF r = "part_000" THEN Or(Or(Get(c, "id"), Get(c, "chatId")), Get(c, "jid"))
  ELSE Get(c, "id")

BfPhone(r, c) ==
  IF r = "part_000" THEN Or(Get(c, "phone"), LocalPart(BfChatId(r, c)))
  ELSE LocalPart(BfChatId(r, c))

BfName(r, c) ==
  IF r = "part_000" THEN Or(Or(Get(c, "name"), Get(c, "pushname")), BfPhone(r, c))
  ELSE Or(Get(c, "name"), BfPhone(r, c))

BfAvatar(r, c) ==
  IF r = "part_000" THEN Or(Or(Get(c, "profilePicUrl"), Get(c, "avatarUrl")), Null)
  ELSE Or(Get(c, "profilePicUrl"), Null)

\* the first upsertChat of a listed conversation: no preview argument
BfFirstUpsert(r, C, c, now) ==
  upsertChat(C,
    [chatId |-> BfChatId(r, c), name |-> BfName(r, c), phone |-> BfPhone(r, c),
     ts |-> Num(now), avatarUrl |-> BfAvatar(r, c), preview |-> Undef])

RECURSIVE SkipNoId(_, _)
\* if (!chatId) continue
SkipNoId(r, todo) ==
  IF todo = <<>> \/ Throws(Head(todo)) \/ Truthy(BfChatId(r, Head(todo))) THEN todo
  ELSE SkipNoId(r, Tail(todo))

\* the stored record of a page item
BfMessage(r, chatId, m, now) ==
  IF r = "part_000"
  THEN [id |-> Or(Or(Get(m, "id"), Get(Get(m, "key"), "id")),
                  SynthId(chatId, Or(Get(m, "timestamp"), Num(now)))),
        chatId |-> chatId, fromMe |-> FromMe(m), type |-> TypeOfPlain(m),
        text |-> TextOfPlain(m), mediaUrl |-> MediaOf(m), ts |-> TsOfSeconds(m, now)]
  ELSE [id |-> Get(m, "id"), chatId |-> chatId, fromMe |-> FromMe(m),
        type |-> Get(m, "type"), text |-> Or(Get(m, "body"), EmptyStr),
        mediaUrl |-> Or(Get(m, "mediaUrl"), Null),
        ts |-> Or(Times(Number(Get(m, "timestamp")), Num(1000)), Num(now))]

\* pushMessage, then the preview (a slice), then upsertChat without avatarUrl
BfItem(r, S, c, m, now) ==
  LET msg == BfMessage(r, BfChatId(r, c), m, now)
      pushed == [S EXCEPT !.M = pushMessage(S.M, msg.chatId, msg),
                          !.P = RecordPush(S.P, msg.chatId, msg)]
  IN IF SliceThrows(msg.text) THEN [pushed EXCEPT !.threw = TRUE]
     ELSE [pushed EXCEPT !.C =
            upsertChat(S.C,
              [chatId |-> msg.chatId, name |-> BfName(r, c), phone |-> BfPhone(r, c),
               ts |-> msg.ts, avatarUrl |-> Undef,
               preview |-> Preview(msg.type, PreviewText(msg.type, msg.text))])]

RECURSIVE BfItems(_, _, _, _, _)
\* for (const m of page.messages) { ... }
BfItems(r, S, c, items, now) ==
  IF items = <<>> \/ S.threw THEN S
  ELSE IF Throws(Head(items)) THEN [S EXCEPT !.threw = TRUE]
  ELSE BfItems(r, BfItem(r, S, c, Head(items), now), c, Tail(items), now)

\* the stores and the run's state after a step of the run
BfStep(S, b) ==
  /\ Chats' = S.C
  /\ Messages' = S.M
  /\ Pushed' = S.P
  /\ bf' = b
  /\ last' = [Idle EXCEPT !.op = "backfill", !.resp = b.resp, !.threw = S.threw]
  /\ UNCHANGED <<rev, nOps, clock, configured, reader>>

\* res.status(500).json({ ok: false, error })
BfFailed == [bf EXCEPT !.pc = "done", !.resp = "error"]

\* the number of log entries of the message store
BfCountLogs(S) == Cardinality(DOMAIN S.M)

\* Chats.size
BfCount(S) == Cardinality(DOMAIN S.C)

\* from the top of the for loop over the listed conversations to the next
\* await: the conversations without an id are skipped, the next one is
\* upserted and its first page requested; after the last one the run replies
\* { ok: true, chats: Chats.size }; bf.processed is the set of conversations
\* the run has upserted
BfEnterFrom(b, S, todo0) ==
  LET todo == SkipNoId(rev, todo0)
  IN IF todo = <<>>
     THEN BfStep(S, [b EXCEPT !.pc = "done", !.todo = <<>>, !.resp = "ok",
                              !.count = BfCount(S)])
     ELSE IF Throws(Head(todo)) \/ (rev = "server_b" /\ BfChatId(rev, Head(todo)).t # "str")
     THEN BfStep([S EXCEPT !.threw = TRUE], [b EXCEPT !.pc = "done", !.resp = "error"])
     ELSE BfStep([S EXCEPT !.C = BfFirstUpsert(rev, S.C, Head(todo), NowMs(clock))],
                 [b EXCEPT !.pc = "page", !.todo = todo, !.cursor = Null,
                           !.processed = b.processed \cup {BfChatId(rev, Head(todo))}])

BfEnter(S, todo0) == BfEnterFrom(bf, S, todo0)

\* res.status(500).json({ ok: false, error: "Missing ZAPI_BASE or ZAPI_TOKEN" })
BfNotConfigured == [bf EXCEPT !.pc = "done", !.resp = "missing-config"]

BfFirstUnchecked(conf) == [bf EXCEPT !.pc = "list"]

\* if (!ZAPI_BASE || !ZAPI_TOKEN) return ...; otherwise on to the first fetch
BfFirst(conf) == IF conf THEN [bf EXCEPT !.pc = "list"] ELSE BfNotConfigured

\* POST /backfill up to the first await
BackfillStart ==
  /\ rev \in {"part_000", "server_b"}
  /\ bf.pc = "idle"
  /\ BfStep(Work, BfFirst(configured))

\* part_000: fetchAllChats returns the first endpoint answer that yields an
\* array, or [] when every endpoint fails
BackfillListed000(answers) ==
  /\ rev = "part_000"
  /\ bf.pc = "list"
  /\ LET chats == fetchAllChats(answers).e
     IN BfEnterFrom([bf EXCEPT !.answers = answers, !.chats = chats], Work, chats)

\* server.js: chats = await chatsResp.json(); for (const c of chats || [])
BackfillListedB(data) ==
  /\ rev = "server_b"
  /\ bf.pc = "list"
  /\ IF IsArray(data) THEN BfEnter(Work, data.e)
     ELSE BfStep([Work EXCEPT !.threw = TRUE], BfFailed)

\* server.js: a fetch or json() that rejects is caught by the handler
BackfillFetchFailsB ==
  /\ rev = "server_b"
  /\ bf.pc \in {"list", "page"}
  /\ BfStep([Work EXCEPT !.threw = TRUE], BfFailed)

\* the items and the next cursor of a page answer
PageItems(r, data) ==
  IF r = "part_000" THEN MessagesOf000(data) ELSE Or(Get(data, "messages"), Arr(<<>>))

\* a run that forgets the cursor of the page
PageCursorDropped(data) == Null

\* a run that takes every page as having a cursor
PageCursorSticky(data) == Or(Get(data, "nextCursor"), Str(<<"c", "0">>))

\* data.nextCursor || null, and page?.nextCursor || null
PageCursor(data) == Or(Get(data, "nextCursor"), Null)

\* one page of the do/while loop: its items, then cursor = page.nextCursor;
\* bf.got is the answer to the request that was pending, bf.cursor the cursor
\* of the request now pending
BackfillPage(data) ==
  /\ rev \in {"part_000", "server_b"}
  /\ bf.pc = "page"
  /\ bf.pages < MaxPages \/ ~Truthy(PageCursor(data))
  /\ LET S == IF IsArray(PageItems(rev, data))
              THEN BfItems(rev, Work, Head(bf.todo), PageItems(rev, data).e, NowMs(clock))
              ELSE [Work EXCEPT !.threw = TRUE]
         b == [bf EXCEPT !.got = data]
     IN IF S.threw THEN BfStep(S, BfFailed)
        ELSE IF Truthy(PageCursor(data))
        THEN BfStep(S, [b EXCEPT !.cursor = PageCursor(data), !.pages = bf.pages + 1])
        ELSE BfEnterFrom(b, S, Tail(bf.todo))

\* return { messages: [], nextCursor: null }
NoPage == Obj(<< <<"messages", Arr(<<>>)>>, <<"nextCursor", Null>> >>)

\* part_000: fetchMessagesForChat found no endpoint that answers
BackfillPageExhausted000 ==
  /\ rev = "part_000"
  /\ bf.pc = "page"
  /\ BfEnterFrom([bf EXCEPT !.lost = TRUE, !.got = NoPage], Work, Tail(bf.todo))

\* the bodies delivered while a backfill may be running
MainBodies ==
  { BodyShape1, BodyMessages, BodyDirect, BodyMsg, BodyPresence, BodyMessagesNull }

\* the upstream answers given while webhooks are delivered too
MainListAnswers ==
  { <<Answer(TRUE, ListA), Answer(TRUE, ListB), Failed>>,
    <<Failed, Failed, Answer(TRUE, ListMixed)>> }

MainChatLists == {ListA, ListMixed.p[1][2]}

MainPageAnswers ==
  { Obj(<< <<"messages", Arr(<<UpMsgA, UpMsgB>>)>>, <<"nextCursor", Str(<<"c", "1">>)>> >>),
    Obj(<< <<"messages", Arr(<<UpMsgC>>)>> >>) }

Next ==
  \/ nOps < MaxDeliveries /\ \E body \in MainBodies : Webhook000(body)
  \/ nOps < MaxDeliveries /\ \E body \in MainBodies : Webhook001(body)
  \/ nOps < MaxDeliveries /\ \E body \in MainBodies : WebhookA(body)
  \/ nOps < MaxDeliveries /\ \E body \in MainBodies : WebhookB(body)
  \/ BackfillStart
  \/ \E answers \in MainListAnswers : BackfillListed000(answers)
  \/ \E data \in MainChatLists : BackfillListedB(data)
  \/ BackfillFetchFailsB
  \/ \E data \in MainPageAnswers : BackfillPage(data)
  \/ BackfillPageExhausted000
  \/ Tick

Spec == Init /\ [][Next]_vars

\* backfill runs alone, with every upstream answer:  SpecBackfill
InitBackfill == Init /\ rev \in {"part_000", "server_b"}

NextBackfill ==
  \/ BackfillStart
  \/ \E answers \in ListAnswers : BackfillListed000(answers)
  \/ \E data \in ChatLists : BackfillListedB(data)
  \/ BackfillFetchFailsB
  \/ \E data \in PageAnswers : BackfillPage(data)
  \/ BackfillPageExhausted000
  \/ Tick

SpecBackfill == InitBackfill /\ [][NextBackfill]_vars

\* a backfill run of part_000 whose upstream calls all return, with webhook
\* deliveries in between:  SpecLive.  An upstream call of the run that is
\* pending is eventually answered; the upstream returns at most MaxPages
\* pages with a cursor to a run.
BackfillAdvance ==
  \/ \E answers \in MainListAnswers : BackfillListed000(answers)
  \/ \E data \in MainPageAnswers : BackfillPage(data)
  \/ BackfillPageExhausted000

InitLive == Init /\ rev = "part_000" /\ configured

NextLive ==
  \/ nOps < MaxDeliveries /\ \E body \in MainBodies : Webhook000(body)
  \/ BackfillStart
  \/ BackfillAdvance
  \/ Tick

\* BackfillAdvance is enabled exactly while a call of the run is pending:
\* BackfillListed000 answers every pending list call, and
\* BackfillPageExhausted000 or BackfillPage every pending page call
Pending == bf.pc \in {"list", "page"}

\* WF_vars(BackfillAdvance), with ENABLED <<BackfillAdvance>>_vars written as
\* the state predicate Pending: every step of NextLive that changes bf while
\* a call is pending is a BackfillAdvance step, and every BackfillAdvance
\* step changes bf
UpstreamReturns == []<>(~Pending) \/ []<><<Pending /\ bf' # bf>>_vars

SpecLive == InitLive /\ [][NextLive]_vars /\ UpstreamReturns

\* webhook deliveries alone:  SpecHook
InitHook == Init /\ configured

\* the bodies of the earlier deliveries, which fill the stores (or, with
\* BodyNone, leave them empty); the last delivery is of any body
HookSeeds == MainBodies \cup {BodyNone}

HookBodies(n) == IF n + 1 < MaxHookDeliveries THEN HookSeeds ELSE Bodies

NextHook ==
  \/ nOps < MaxHookDeliveries /\ \E body \in HookBodies(nOps) : Webhook000(body)
  \/ nOps < MaxHookDeliveries /\ \E body \in HookBodies(nOps) : Webhook001(body)
  \/ nOps < MaxHookDeliveries /\ \E body \in HookBodies(nOps) : WebhookA(body)
  \/ nOps < MaxHookDeliveries /\ \E body \in HookBodies(nOps) : WebhookB(body)
  \/ Tick

SpecHook == InitHook /\ [][NextHook]_vars

(***************************************************************************)
(* The read handlers GET /threads and GET /messages (the same text in      *)
(* part_000 and in server.js), on stores filled by direct calls:  SpecRead.*)
(***************************************************************************)
\* a + b on numbers
Plus(a, b) == IF a.t = "num" /\ b.t = "num" THEN Num(a.n + b.n) ELSE NaN

\* a relative index of Array.prototype.slice: NaN is 0, a negative index
\* counts from the end, and the result is clamped to 0..n
SliceIndex(v, n) ==
  IF v.t # "num" THEN 0
  ELSE IF v.n < 0 THEN (IF n + v.n < 0 THEN 0 ELSE n + v.n)
  ELSE IF v.n > n THEN n ELSE v.n

\* arr.slice(start, end)
ArraySlice(arr, start, end) ==
  SubSeq(arr, SliceIndex(start, Len(arr)) + 1, SliceIndex(end, Len(arr)))

\* const { chatId, cursor = "0", pageSize = "50" } = req.query
QueryCursor(q) == IF q.cursor.t = "undef" THEN Str(<<"0">>) ELSE q.cursor
QueryPageSize(q) == IF q.pageSize.t = "undef" THEN Str(<<"5", "0">>) ELSE q.pageSize

\* a handler that ignores the cursor
PageStartZero(q) == Num(0)

\* start = Number(cursor) || 0;  end = start + Number(pageSize)
PageStart(q) == Or(Number(QueryCursor(q)), Num(0))
PageEnd(q) == Plus(PageStart(q), Number(QueryPageSize(q)))

\* a cursor also when the page ends exactly at the end of the log
NextCursorInclusive(end, all) ==
  IF end.t = "num" /\ end.n <= Len(all) THEN Str(String(end)) ELSE Null

\* end < all.length ? String(end) : null
NextCursorOf(end, all) ==
  IF end.t = "num" /\ end.n < Len(all) THEN Str(String(end)) ELSE Null

\* res.json({ items: slice, nextCursor })
MessagesReply(M, q) ==
  LET all == LogOf(M, q.chatId)
  IN [t |-> "obj", items |-> ArraySlice(all, PageStart(q), PageEnd(q)),
      nextCursor |-> NextCursorOf(PageEnd(q), all)]

Queries ==
  { [chatId |-> ChatA, cursor |-> cur, pageSize |-> p] :
      cur \in {Undef, Str(<<"1">>), Str(<<"2">>), Str(<<"-", "1">>)},
      p \in {Undef, Str(<<"1">>), Str(<<"2">>), Str(<<"x">>)} }
  \cup {[chatId |-> ChatB, cursor |-> Undef, pageSize |-> Undef]}

\* GET /messages: the reply, the stores being left as they are
MessagesServe(q) ==
  /\ last' = [Idle EXCEPT !.op = "messages", !.args = q, !.out = MessagesReply(Messages, q)]
  /\ UNCHANGED <<rev, Chats, Messages, Pushed, nOps, clock, bf, configured>>

\* GET /messages
MessagesRead(q) == MessagesServe(q) /\ UNCHANGED reader

\* c.phone || (c.chatId?.split("@")[0] ?? "")
ThreadPhone(c) == Or(c.phone, LocalPart(c.chatId))

\* `${ZAPI_BASE}/profile-pic?token=${ZAPI_TOKEN}&phone=${phone}`, with "B"
\* and "T" standing for the two configured values
ProfilePicUrl(phone) ==
  Str(<<"B", "/", "p", "r", "o", "f", "i", "l", "e", "-", "p", "i", "c", "?", "t", "o", "k",
        "e", "n", "=", "T", "&", "p", "h", "o", "n", "e", "=">> \o String(phone))

\* the avatar of a listed conversation
ThreadAvatar(c, conf) ==
  IF Truthy(c.avatarUrl) THEN [type |-> "proxy", url |-> c.avatarUrl]
  ELSE IF Truthy(ThreadPhone(c)) /\ conf
  THEN [type |-> "proxy", url |-> ProfilePicUrl(ThreadPhone(c))]
  ELSE [type |-> "none", url |-> Undef]

\* the object .map(c => ...) returns for a summary
ThreadOf(c, conf) ==
  [chatId |-> c.chatId, name |-> c.name, phone |-> ThreadPhone(c), lastTs |-> c.lastTs,
   unread |-> Num(0),
   preview |-> Or(c.preview, Preview(Str(S_chat), EmptyStr)),
   avatar |-> ThreadAvatar(c, conf)]

\* the orders in which [...Chats.values()] may list the summaries
Listings(C) ==
  { s \in [1..Cardinality(DOMAIN C) -> DOMAIN C] :
      \A i, j \in 1..Cardinality(DOMAIN C) : i # j => s[i] # s[j] }

ThreadsAscending(C, s) ==
  \A i, j \in 1..Len(s) :
    i < j => Or(C[s[i]].lastTs, Num(0)).n <= Or(C[s[j]].lastTs, Num(0)).n

\* .sort((a, b) => (b.lastTs || 0) - (a.lastTs || 0)) leaves s in this order
ThreadsSorted(C, s) ==
  \A i, j \in 1..Len(s) :
    i < j => Or(C[s[i]].lastTs, Num(0)).n >= Or(C[s[j]].lastTs, Num(0)).n

\* GET /threads.  The sort is stable: summaries of equal lastTs stay in the
\* order of the Map, which the model does not record, so either order of a
\* tie is a reply
ThreadsRead ==
  /\ \E s \in Listings(Chats) :
       /\ ThreadsSorted(Chats, s)
       /\ last' = [Idle EXCEPT !.op = "threads",
                               !.out = Arr([i \in 1..Len(s) |-> ThreadOf(Chats[s[i]], configured)])]
  /\ UNCHANGED <<rev, Chats, Messages, Pushed, nOps, clock, bf, configured, reader>>

\* the calls that fill the stores before the reads
ReadUpserts ==
  { [chatId |-> ChatA, name |-> Str(<<"A", "n", "n">>), phone |-> Str(<<"5", "5", "1", "1">>),
     ts |-> Num(1000), avatarUrl |-> Str(<<"p">>), preview |-> PreviewHi],
    [chatId |-> ChatA, name |-> Undef, phone |-> Undef, ts |-> Num(3000),
     avatarUrl |-> Undef, preview |-> Undef],
    [chatId |-> ChatB, name |-> Str(<<"B", "o", "b">>), phone |-> Undef, ts |-> Num(2000),
     avatarUrl |-> Null, preview |-> PreviewPic],
    [chatId |-> ChatB, name |-> Undef, phone |-> Undef, ts |-> Num(1000),
     avatarUrl |-> Undef, preview |-> Undef] }

ReadPushes ==
  { [id |-> Str(<<"m", d>>), chatId |-> ChatA, fromMe |-> Bool(FALSE), type |-> Str(S_chat),
     text |-> Str(<<d>>), mediaUrl |-> Null, ts |-> Num(1000)] : d \in {"1", "2", "3", "4"} }

InitRead == Init /\ rev \in {"part_000", "server_b"} /\ configured

NextRead ==
  \/ \E a \in ReadUpserts : UpsertCall(a)
  \/ \E msg \in ReadPushes : PushCall(msg)
  \/ \E q \in Queries : MessagesRead(q)
  \/ ThreadsRead

SpecRead == InitRead /\ [][NextRead]_vars

(***************************************************************************)
(* A client pages the log of a conversation with GET /messages while       *)
(* pushMessage is called between its requests:  SpecReader.  The client    *)
(* starts at cursor "0" with a page size it keeps, sends the nextCursor of  *)
(* each reply as the cursor of the next request and stops at a null one.   *)
(***************************************************************************)
PageSizes == {Str(<<"1">>), Str(<<"2">>)}

\* the requests a client gets to make; no run of the handlers needs as many
MaxReads == MaxCalls + 2

\* one request of the client and what it keeps of the reply
ReaderRead(k) ==
  /\ reader.pc # "done"
  /\ reader.reads < MaxReads
  /\ reader.pc = "idle" \/ reader.size = k
  /\ LET q == [chatId |-> ChatA, cursor |-> reader.cursor, pageSize |-> k]
         reply == MessagesReply(Messages, q)
     IN /\ MessagesServe(q)
        /\ reader' = [pc |-> IF reply.nextCursor = Null THEN "done" ELSE "reading",
                      cursor |-> reply.nextCursor,
                      size |-> k,
                      got |-> reader.got \o reply.items,
                      start |-> IF reader.pc = "idle" THEN LogOf(Messages, ChatA)
                                ELSE reader.start,
                      reads |-> reader.reads + 1]

ReaderStep == \E k \in PageSizes : ReaderRead(k)

InitReader == Init /\ rev = "part_000" /\ configured

NextReader ==
  \/ \E msg \in ReadPushes : PushCall(msg)
  \/ ReaderStep

\* the client goes on asking as long as it holds a cursor
SpecReader == InitReader /\ [][NextReader]_vars /\ WF_vars(ReaderStep)

(***************************************************************************)
(* Properties of the message log and the conversation store.               *)
(***************************************************************************)
\* the ids of the records of a sequence
IdsOf(seq) == {seq[i].id : i \in 1..Len(seq)}

\* C1: after any sequence of pushMessage calls, from webhook deliveries and
\* backfill pages in any order, no conversation's log holds two records with
\* the same id, and a push of an id already in the log left it unchanged: the
\* log holds exactly one record for each id ever pushed.
C1_LogIdsUnique ==
  \A c \in DOMAIN Messages :
    /\ \A i, j \in 1..Len(Messages[c]) :
         i # j => Messages[c][i].id # Messages[c][j].id
    /\ IdsOf(Messages[c]) = IdsOf(Pushed[c])
    /\ Len(Messages[c]) = Cardinality(IdsOf(Pushed[c]))

\* a record pushed by the backfill and pushed again by a webhook (or the
\* reverse) is in the log once
C1_Witness ==
  /\ bf.pc # "idle"
  /\ last.op = "webhook"
  /\ \E c \in DOMAIN Messages :
       /\ Len(Pushed[c]) > Len(Messages[c])
       /\ Len(Messages[c]) >= 1

\* the timestamp an upsertChat argument counts as: absent, zero and NaN are 0
IncomingTs(ts) == IF ts.t = "num" THEN ts.n ELSE 0

\* the stored lastTs of a conversation, 0 before its first upsert
StoredTs(C, id) == IF id \in DOMAIN C THEN C[id].lastTs.n ELSE 0

MaxOf(x, y) == IF x >= y THEN x ELSE y

\* C2: lastTs never decreases, and after each upsertChat call it is
\* max(previous lastTs, incoming ts), whatever the order of the timestamps and
\* also for an absent or zero timestamp.
C2_LastTsIsMax ==
  [][/\ \A c \in DOMAIN Chats :
          /\ c \in DOMAIN Chats'
          /\ Chats'[c].lastTs.t = "num"
          /\ Chats'[c].lastTs.n >= Chats[c].lastTs.n
     /\ (last'.op = "upsertChat" /\ nOps' = nOps + 1) =>
          Chats'[last'.args.chatId].lastTs =
            Num(MaxOf(StoredTs(Chats, last'.args.chatId), IncomingTs(last'.args.ts)))]_vars

\* an upsert with an absent timestamp, and one with an older timestamp, on a
\* conversation whose lastTs is 2000
C2_Witness ==
  /\ last.op = "upsertChat"
  /\ last.args.ts \in {Undef, Num(1000)}
  /\ last.args.chatId = ChatA
  /\ ChatA \in DOMAIN Chats
  /\ Chats[ChatA].lastTs = Num(2000)

\* undefined, null or empty
Absent(v) == v.t \in {"undef", "null"} \/ v = EmptyStr

MergedFields == {"name", "phone", "avatarUrl", "preview"}

FirstArrivals(seq) ==
  SelectSeq([i \in 1..Len(seq) |-> [at |-> i, rec |-> seq[i]]],
            LAMBDA e : \A j \in 1..(e.at - 1) : seq[j].id # seq[e.at].id)

\* seq in the opposite order
Reversed(seq) == [i \in 1..Len(seq) |-> seq[Len(seq) + 1 - i]]

\* C4: a conversation's log is exactly the first-arrived record of each
\* distinct id, most recent arrival first; stored records are never modified,
\* removed or re-sorted by timestamp.
C4_LogIsArrivalOrder ==
  /\ DOMAIN Messages = DOMAIN Pushed
  /\ \A c \in DOMAIN Pushed :
       LET first == FirstArrivals(Pushed[c])
       IN /\ Len(Messages[c]) = Len(first)
          /\ \A i \in 1..Len(first) : Messages[c][i] = Reversed(first)[i].rec

\* a record with an older timestamp arrived later and sits ahead of a newer
\* one, and a second arrival of a stored id was dropped
C4_Witness ==
  /\ last.op = "pushMessage"
  /\ \E c \in DOMAIN Messages :
       /\ Len(Pushed[c]) > Len(Messages[c])
       /\ \E i, j \in 1..Len(Messages[c]) :
            i < j /\ Messages[c][i].ts.n < Messages[c][j].ts.n

(***************************************************************************)
(* Properties of the webhook intake.                                       *)
(***************************************************************************)
\* a step that is one webhook delivery
IsDelivery == last'.op = "webhook" /\ nOps' = nOps + 1

\* the body the normalizer is given: part_000 and part_001 parse a string body
\* and replace a missing one by {} first
HookInput(r, body) == IF r \in {"part_000", "part_001"} THEN HookBody(body) ELSE body

Present(x, k) == x.t = "obj" /\ Truthy(Get(x, k))

NoiseWords ==
  { <<"S", "t", "a", "t", "u", "s", "C", "a", "l", "l", "b", "a", "c", "k">>, <<"P", "r", "e", "s", "e", "n", "c", "e">>, <<"T", "y", "p", "i", "n", "g">>, <<"A", "c", "k">>, <<"R", "e", "a", "d">>, <<"D", "e", "l", "i", "v", "e", "r", "e", "d">> }

\* the declared type of a candidate: its type, else its messageType
DeclaredType(m) ==
  IF Present(m, "type") THEN String(Get(m, "type"))
  ELSE IF Present(m, "messageType") THEN String(Get(m, "messageType"))
  ELSE <<>>

\* a candidate of a non-content kind; exactly "ReceivedCallback" is content
IsNoiseCandidate(m) ==
  /\ m.t = "obj"
  /\ DeclaredType(m) # S_ReceivedCallback
  /\ \E w \in NoiseWords : RegexTestI(w, DeclaredType(m))

\* C5: a candidate whose declared type matches status-callback, presence,
\* typing, acknowledgement, read-receipt or delivery-receipt never creates or
\* changes a summary or a message: a delivery whose candidates are all such
\* noise leaves both stores as they were.
C5_NoiseLeavesStores ==
  [][(IsDelivery /\ rev \in {"part_000", "part_001"} /\ last'.cands # <<>>
      /\ \A i \in 1..Len(last'.cands) : IsNoiseCandidate(last'.cands[i])) =>
       (Chats' = Chats /\ Messages' = Messages)]_vars

\* the conversation id a candidate carries: chatId, from, jid, remoteJid, or
\* the digits of phone followed by @c.us
CarriedId(m) ==
  IF Present(m, "chatId") THEN Get(m, "chatId")
  ELSE IF Present(m, "from") THEN Get(m, "from")
  ELSE IF Present(m, "jid") THEN Get(m, "jid")
  ELSE IF Present(m, "remoteJid") THEN Get(m, "remoteJid")
  ELSE Str(StripNonDigits(String(Get(m, "phone"))) \o S_cus)

CarriesId(m) ==
  \E k \in {"chatId", "from", "jid", "remoteJid", "phone"} : Present(m, k)

\* C6: a candidate whose declared type is exactly "ReceivedCallback" is
\* content: when it carries a conversation id the webhook stores a message of
\* kind "chat" for it and upserts its conversation summary.
C6_ReceivedCallbackStored ==
  [][(IsDelivery /\ rev \in {"part_000", "part_001"}) =>
       \A i \in 1..Len(last'.cands) :
         LET m == last'.cands[i]
         IN (m.t = "obj" /\ Get(m, "type") = Str(S_ReceivedCallback) /\ CarriesId(m)) =>
              /\ CarriedId(m) \in DOMAIN Chats'
              /\ CarriedId(m) \in DOMAIN Messages'
              /\ \E k \in 1..Len(Messages'[CarriedId(m)]) :
                   Messages'[CarriedId(m)][k].type = Str(S_chat)]_vars

\* the candidates from which a conversation id can be derived, or on which
\* the handler cannot even read a property (null)
RECURSIVE WithoutIdless(_)
WithoutIdless(cands) ==
  IF cands = <<>> THEN <<>>
  ELSE (IF ~Throws(Head(cands)) /\ ~CarriesId(Head(cands)) THEN <<>> ELSE <<Head(cands)>>)
       \o WithoutIdless(Tail(cands))

\* C7: a candidate with no chatId, from, jid, remoteJid and no phone is
\* dropped with no mutation of either store, and the other candidates of the
\* delivery are still processed in sequence order: the delivery leaves the
\* stores as the same delivery without those candidates would.
C7_IdlessCandidateDropped ==
  [][IsDelivery =>
       LET S == RunLoop(rev, Work, WithoutIdless(last'.cands), NowMs(clock))
       IN Chats' = S.C /\ Messages' = S.M]_vars

\* the candidate after a dropped one was stored
C7_Witness ==
  /\ last.op = "webhook"
  /\ last.body = BodyMessagesOrphan
  /\ ~last.threw
  /\ ChatA \in DOMAIN Messages
  /\ \E k \in 1..Len(Messages[ChatA]) : Messages[ChatA][k].id = Get(MsgM3, "id")
  /\ Cardinality(DOMAIN Chats) = 1

\* C10: every webhook delivery is answered with a success acknowledgement
\* and never with a failure status, whatever the body.
C10_AlwaysAcknowledged ==
  (last.op = "webhook" /\ rev \in {"server_a", "part_001"}) => last.resp = "ok"

(***************************************************************************)
(* Properties of the payload normalizer.                                   *)
(***************************************************************************)
\* the six envelope shapes as the specification lists them
Envelope1(b) == Get(b, "type") = Str(S_message) /\ Present(b, "message")
Envelope2(b) == Get(b, "messages").t = "arr"
Envelope3(b) == Get(b, "event") = Str(S_message) /\ Present(b, "data")
Envelope4(b) ==
  /\ Present(b, "chatId")
  /\ \E k \in {"body", "text", "caption", "imageUrl", "documentUrl"} : Present(b, k)
Envelope5(b) ==
  /\ Present(b, "msg")
  /\ (Present(Get(b, "msg"), "chatId") \/ Present(Get(b, "msg"), "from"))
Envelope6(b) ==
  \/ Get(b, "type") = Str(S_ReceivedCallback)
  \/ Present(b, "phone")
  \/ Get(b, "text").t \in {"obj", "arr"}

MatchesEnvelope(b) ==
  /\ b.t = "obj"
  /\ (Envelope1(b) \/ Envelope2(b) \/ Envelope3(b) \/ Envelope4(b) \/ Envelope5(b)
      \/ Envelope6(b))

\* the result of the lowest-numbered envelope that matches
EnvelopeResult(b) ==
  IF Envelope1(b) THEN <<Get(b, "message")>>
  ELSE IF Envelope2(b) THEN Get(b, "messages").e
  ELSE IF Envelope3(b) THEN
    (IF Get(b, "data").t = "arr" THEN Get(b, "data").e ELSE <<Get(b, "data")>>)
  ELSE IF Envelope5(b) /\ ~Envelope4(b) THEN <<Get(b, "msg")>>
  ELSE <<b>>

\* C8: normalizeIncoming tries the six envelope shapes in order and the first
\* matching shape alone determines the candidates: [message], the messages
\* array, [data] or data, [body], [msg], [body]; a body matching several
\* shapes gets the result of the lowest-numbered one.
C8_FirstEnvelopeWins ==
  (/\ last.op = "webhook"
   /\ rev \in {"part_001", "server_a"}
   /\ MatchesEnvelope(HookInput(rev, last.body))) =>
     last.cands = EnvelopeResult(HookInput(rev, last.body))

\* every value of a body, the body first, then the values under each key or
\* index in document order (depth first)
RECURSIVE NodesOf(_)
RECURSIVE NodesOfAll(_)
NodesOf(x) ==
  <<x>> \o (IF x.t = "obj" THEN NodesOfAll([i \in 1..Len(x.p) |-> x.p[i][2]])
            ELSE IF x.t = "arr" THEN NodesOfAll(x.e)
            ELSE <<>>)

NodesOfAll(vs) == IF vs = <<>> THEN <<>> ELSE NodesOf(Head(vs)) \o NodesOfAll(Tail(vs))

ExposesContent(x) ==
  \/ Present(x, "body")
  \/ Get(x, "text").t = "str"
  \/ (Present(Get(x, "text"), "message") \/ Present(Get(x, "text"), "caption"))
  \/ Present(x, "caption")
  \/ Present(x, "imageUrl")
  \/ Present(x, "documentUrl")

IsScanHit(x) == x.t = "obj" /\ CarriesId(x) /\ ExposesContent(x)

ScanExpected(b) == SelectSeq(NodesOf(b), IsScanHit)

\* C9: for a body matching none of the six envelope shapes, normalizeIncoming
\* returns exactly the objects of the body, at any depth and inside arrays,
\* that expose both an identity-bearing field and a content-bearing field, in
\* depth-first document order, and no other object.
C9_ScanFindsExactlyHits ==
  (/\ last.op = "webhook"
   /\ rev \in {"part_000", "part_001"}
   /\ ~Throws(HookInput(rev, last.body))
   /\ ~MatchesEnvelope(HookInput(rev, last.body))) =>
     last.cands = ScanExpected(HookInput(rev, last.body))

\* the scan returned two nested objects found under an object and an array,
\* and skipped the objects with only an identity or only a content field
C9_Witness ==
  /\ last.op = "webhook"
  /\ rev \in {"part_000", "part_001"}
  /\ last.body = BodyWalk
  /\ Len(last.cands) = 2
  /\ Get(last.cands[1], "jid") = ChatA
  /\ Get(last.cands[2], "remoteJid") = ChatB

(***************************************************************************)
(* Properties of the preview.                                              *)
(***************************************************************************)
\* the first n characters of s, or all of s
FirstChars(s, n) == [i \in 1..(IF Len(s) < n THEN Len(s) ELSE n) |-> s[i]]

\* the preview of a record of the given kind and text
ExpectedPreview(kind, text) ==
  Obj(<< <<"type", kind>>,
         <<"text", IF kind = Str(S_chat) THEN Str(FirstChars(text.s, 120))
                   ELSE Str(<<"[">> \o String(kind) \o <<"]", " ">> \o FirstChars(text.s, 80))>> >>)

\* the conversations for which the step called pushMessage
PushedNow(c) ==
  /\ c \in DOMAIN Pushed'
  /\ Len(Pushed'[c]) > (IF c \in DOMAIN Pushed THEN Len(Pushed[c]) ELSE 0)

\* C11: for every content record ingested by the webhook the preview stored
\* on the summary is, for kind "chat", the text truncated to 120 characters
\* and, for any other kind, "[kind] " followed by the text truncated to 80
\* characters (the summary shows the last record ingested for it).
C11_PreviewTruncated ==
  [][(IsDelivery /\ rev \in {"part_000", "part_001"} /\ ~last'.threw) =>
       \A c \in DOMAIN Chats' :
         PushedNow(c) =>
           LET msg == Pushed'[c][Len(Pushed'[c])]
           IN Chats'[c].preview = ExpectedPreview(msg.type, msg.text)]_vars

(***************************************************************************)
(* Properties of the reads.                                                *)
(***************************************************************************)
\* the cursor and page size of a query as numbers (defaults 0 and 50)
CursorNat(q) == IF q.cursor.t = "undef" THEN 0 ELSE DigitsToNat(q.cursor.s)
PageSizeNat(q) == IF q.pageSize.t = "undef" THEN 50 ELSE DigitsToNat(q.pageSize.s)

IsNatText(v) == v.t = "undef" \/ (v.t = "str" /\ v.s # <<>> /\ \A i \in 1..Len(v.s) : IsDigit(v.s[i]))

SmallerOf(a, b) == IF a < b THEN a ELSE b

\* C12: the messages read with cursor c and page size p on a log of length n
\* returns the entries at positions c up to min(c+p, n) in log order, with
\* nextCursor c+p when c+p < n and null otherwise, and changes neither store.
C12_MessagesPage ==
  [][(last'.op = "messages"
      /\ IsNatText(last'.args.cursor) /\ IsNatText(last'.args.pageSize)) =>
       LET q == last'.args
           all == LogOf(Messages, q.chatId)
           c == CursorNat(q)
           p == PageSizeNat(q)
       IN /\ Chats' = Chats /\ Messages' = Messages
          /\ last'.out.items = [i \in 1..(SmallerOf(c + p, Len(all)) - SmallerOf(c, Len(all))) |-> all[c + i]]
          /\ last'.out.nextCursor =
               (IF c + p < Len(all) THEN Str(NatToDigits(c + p)) ELSE Null)]_vars

\* a page from the middle of a log of three: one item and the cursor "2"
C12_Witness ==
  /\ last.op = "messages"
  /\ last.args.cursor = Str(<<"1">>)
  /\ last.args.pageSize = Str(<<"1">>)
  /\ Len(LogOf(Messages, ChatA)) = 3
  /\ last.out.items = <<Messages[ChatA][2]>>
  /\ last.out.nextCursor = Str(<<"2">>)

\* C13: the conversations read returns exactly one summary per conversation
\* id of the store, ordered by lastTs descending, and changes neither store.
C13_ThreadsListing ==
  [][last'.op = "threads" =>
       /\ Chats' = Chats /\ Messages' = Messages
       /\ Len(last'.out.e) = Cardinality(DOMAIN Chats)
       /\ \A id \in DOMAIN Chats :
            \E i \in 1..Len(last'.out.e) :
              /\ last'.out.e[i].chatId = id
              /\ last'.out.e[i].lastTs = Chats[id].lastTs
              /\ last'.out.e[i].name = Chats[id].name
       /\ \A i, j \in 1..Len(last'.out.e) :
            i < j => last'.out.e[i].lastTs.n >= last'.out.e[j].lastTs.n]_vars

\* two conversations listed, the one with the later lastTs first
C13_Witness ==
  /\ last.op = "threads"
  /\ Len(last.out.e) = 2
  /\ last.out.e[1].chatId = ChatB
  /\ last.out.e[1].lastTs = Num(2000)
  /\ last.out.e[2].lastTs = Num(1000)

(***************************************************************************)
(* Properties of the backfill.                                             *)
(***************************************************************************)
\* C14: when the upstream base URL or token is missing, a backfill trigger
\* reports a failure with a diagnostic before any upstream call is made (the
\* run never waits for an upstream answer) and leaves both stores unchanged.
C14_MissingConfigFails ==
  [][(~configured /\ bf' # bf) =>
       /\ bf'.pc = "done"
       /\ bf'.resp = "missing-config"
       /\ last'.op = "backfill" /\ last'.resp = "missing-config"
       /\ Chats' = Chats /\ Messages' = Messages]_vars

\* an unconfigured backfill has been refused
C14_Witness ==
  /\ ~configured
  /\ bf.pc = "done"
  /\ bf.resp = "missing-config"
  /\ last.op = "backfill"

\* the sequence an endpoint's answer carries: the bare array, or the array
\* under chats, contacts or items; none when the request failed, the body did
\* not parse, or the body holds no sequence
SequenceOf(ans) ==
  IF ~ans.ok THEN <<>>
  ELSE IF ans.body.t = "arr" THEN <<ans.body.e>>
  ELSE IF Get(ans.body, "chats").t = "arr" THEN <<Get(ans.body, "chats").e>>
  ELSE IF Get(ans.body, "contacts").t = "arr" THEN <<Get(ans.body, "contacts").e>>
  ELSE IF Get(ans.body, "items").t = "arr" THEN <<Get(ans.body, "items").e>>
  ELSE <<>>

RECURSIVE FirstSequence(_)
\* the data of the first endpoint that answers with a sequence, else nothing
FirstSequence(answers) ==
  IF answers = <<>> THEN <<>>
  ELSE IF SequenceOf(Head(answers)) # <<>> THEN SequenceOf(Head(answers))[1]
  ELSE FirstSequence(Tail(answers))

\* the conversation ids a list names
ListedIds(chats) ==
  { Or(Or(Get(chats[i], "id"), Get(chats[i], "chatId")), Get(chats[i], "jid")) :
      i \in {j \in 1..Len(chats) : chats[j].t = "obj" /\ (Present(chats[j], "id")
                 \/ Present(chats[j], "chatId") \/ Present(chats[j], "jid"))} }

\* C15: the list-conversations step uses the data of the first endpoint, in
\* priority order, that answers successfully with a sequence; a failing
\* endpoint makes the next one be tried; when all fail the backfill goes on
\* with no conversation and still reports success; and every conversation
\* the chosen endpoint lists has a summary when the run has succeeded.
C15_FirstListingEndpointWins ==
  (rev = "part_000" /\ bf.answers # <<>>) =>
     /\ bf.chats = FirstSequence(bf.answers)
     /\ (bf.pc = "done" /\ bf.resp = "ok") =>
          ListedIds(FirstSequence(bf.answers)) \subseteq DOMAIN Chats
     /\ (bf.pc = "done" /\ \A i \in 1..Len(bf.answers) : ~bf.answers[i].ok) =>
          bf.resp = "ok"

\* C16: when a message page cannot be obtained from any candidate endpoint
\* (in particular after an earlier page of the conversation was obtained),
\* the backfill surfaces a reportable error instead of ending the
\* conversation's pagination as if its history were complete and reporting
\* success.
C16_LostPageReported ==
  (rev = "part_000" /\ bf.lost /\ bf.pc = "done") => bf.resp = "error"

BackfillSucceeds == bf.pc # "done" /\ bf'.pc = "done" /\ bf'.resp = "ok"

\* C18 (amended): a successful backfill reports the number of conversation
\* summaries held by the store when the run replies; every conversation the
\* run processed is among them, and so is every conversation stored by
\* another path.
C18_CountIsStoreSize ==
  [][BackfillSucceeds =>
       /\ bf'.processed \subseteq DOMAIN Chats'
       /\ bf'.count = Cardinality(DOMAIN Chats')
       /\ bf'.count = Cardinality(bf'.processed \cup DOMAIN Chats)]_vars

\* a run that processed a conversation replied while the store also held a
\* conversation it did not list
C18_Witness ==
  /\ bf.pc = "done"
  /\ bf.resp = "ok"
  /\ Cardinality(bf.processed) >= 1
  /\ bf.count > Cardinality(bf.processed)
  /\ last.op = "backfill"

\* C18: a successful backfill reports a count equal to the number of
\* conversations processed by that backfill run.
C18_CountIsProcessed ==
  (bf.pc = "done" /\ bf.resp = "ok") => bf.count = Cardinality(bf.processed)

\* the records pushed for conversation c by the step
PushedBy(c) ==
  LET before == IF c \in DOMAIN Pushed THEN Len(Pushed[c]) ELSE 0
      after == IF c \in DOMAIN Pushed' THEN Pushed'[c] ELSE <<>>
  IN SubSeq(after, before + 1, Len(after))

\* the items a revision reads from a page answer: part_000 reads a bare
\* array, messages or items, server.js reads messages only
ItemsRead(r, data) ==
  IF r = "part_000" /\ data.t = "arr" THEN data.e
  ELSE IF Get(data, "messages").t = "arr" THEN Get(data, "messages").e
  ELSE IF r = "part_000" /\ Get(data, "items").t = "arr" THEN Get(data, "items").e
  ELSE <<>>

\* the step is the arrival of a page that the run ingested
PageArrives == bf.pc = "page" /\ bf' # bf /\ bf'.resp # "error"

\* the run goes on with the conversation it was paging
SameConversation == bf'.pc = "page" /\ bf'.todo = bf.todo

RecPlain ==
  Obj(<< <<"chatId", ChatA>>, <<"id", Str(<<"m", "1">>)>>, <<"body", Str(<<"h", "i", "s", "t">>)>>,
         <<"timestamp", Num(1)>>, <<"type", Str(S_chat)>> >>)

RecMessageId ==
  Obj(<< <<"chatId", ChatA>>, <<"messageId", Str(<<"x", "7">>)>>, <<"body", Str(<<"h", "i">>)>>,
         <<"timestamp", Num(2)>> >>)

RecNoId ==
  Obj(<< <<"chatId", ChatA>>, <<"body", Str(<<"y", "o">>)>>, <<"timestamp", Num(4)>> >>)

RecTypes ==
  Obj(<< <<"chatId", ChatA>>, <<"id", Str(<<"m", "4">>)>>, <<"type", Str(<<"x">>)>>,
         <<"messageType", Str(<<"i", "m", "a", "g", "e">>)>>, <<"caption", Str(<<"p", "i", "c">>)>>,
         <<"imageUrl", Str(<<"u">>)>>, <<"timestamp", Num(3)>> >>)

RecMoment ==
  Obj(<< <<"chatId", ChatA>>, <<"id", Str(<<"m", "5">>)>>, <<"body", Str(<<"o", "k">>)>>,
         <<"moment", Num(5000)>>, <<"fromMe", Bool(TRUE)>> >>)

\* the id of RecPlain with another text
RecEdited ==
  Obj(<< <<"chatId", ChatA>>, <<"id", Str(<<"m", "1">>)>>, <<"body", Str(<<"e", "d", "i", "t">>)>>,
         <<"timestamp", Num(1)>>, <<"type", Str(S_chat)>> >>)

SharedRecords == {RecPlain, RecMessageId, RecNoId, RecTypes, RecMoment, RecEdited}

SharedPages == {Obj(<< <<"messages", Arr(<<m>>)>> >>) : m \in SharedRecords}

InitPaths == Init /\ rev = "part_000" /\ configured

NextPaths ==
  \/ nOps < MaxDeliveries /\ \E body \in SharedPages : Webhook000(body)
  \/ BackfillStart
  \/ \E answers \in {<<Answer(TRUE, ListA), Failed, Failed>>} : BackfillListed000(answers)
  \/ \E data \in SharedPages : BackfillPage(data)
  \/ Tick

SpecPaths == InitPaths /\ [][NextPaths]_vars

\* C20: the same upstream message record yields the same stored record (id,
\* kind, text, media reference, timestamp, outbound flag) by the webhook path
\* and by a backfill page, so a message ingested once by each path is once in
\* the conversation's log.
C20_SameRecordBothPaths ==
  (/\ rev = "part_000"
   /\ bf.pc = "done"
   /\ bf.got # Undef
   /\ last.op = "webhook"
   /\ Len(last.cands) = 1
   /\ last.cands = ItemsRead(rev, bf.got))
  => /\ ChatA \in DOMAIN Pushed
     /\ Len(Pushed[ChatA]) = 2
     /\ Pushed[ChatA][1] = Pushed[ChatA][2]
     /\ Len(Messages[ChatA]) = 1

\* a record with id, body, type and timestamp was ingested by both paths
C20_PlainRecordAgrees ==
  /\ bf.pc = "done"
  /\ last.op = "webhook"
  /\ last.cands = <<RecPlain>>
  /\ ItemsRead(rev, bf.got) = <<RecPlain>>
  /\ Len(Pushed[ChatA]) = 2
  /\ Pushed[ChatA][1] = Pushed[ChatA][2]
  /\ Len(Messages[ChatA]) = 1

\* the record carries a name field: senderName, chatName or name
CarriesName(m) ==
  Truthy(Get(m, "senderName")) \/ Truthy(Get(m, "chatName")) \/ Truthy(Get(m, "name"))

\* every record the delivery holds for conversation c is without a name field
NamelessFor(c, cands) ==
  \A i \in 1..Len(cands) : ChatIdOf(cands[i]) = c => ~CarriesName(cands[i])

\* C21: once a conversation's display name has been set from a record that
\* carries a sender name (it is neither the phone nor the id), ingesting a
\* later content record for the conversation that carries no senderName,
\* chatName or name leaves the stored display name unchanged.
C21_NamelessKeepsName ==
  [][(rev = "part_001" /\ last'.op = "webhook") =>
       \A c \in DOMAIN Chats :
         (/\ Chats[c].name # Chats[c].phone
          /\ Chats[c].name # c
          /\ PushedNow(c)
          /\ NamelessFor(c, last'.cands))
         => Chats'[c].name = Chats[c].name]_vars

\* the id the record m of conversation c, stored with timestamp ts, is to get
ExpectedId(m, c, ts) ==
  IF Truthy(Get(m, "id")) THEN Get(m, "id")
  ELSE IF Truthy(Get(Get(m, "key"), "id")) THEN Get(Get(m, "key"), "id")
  ELSE Str(String(c) \o <<"-">> \o String(ts))

\* C22: the id of a stored record is the record's explicit id when present,
\* else its nested key id, else the string "{conversationId}-{timestamp}"
\* built from the conversation id and the derived timestamp of the record.
C22_IdPriority ==
  [][(rev \in {"part_000", "part_001"} /\ last'.op = "webhook") =>
       \A c \in DOMAIN Pushed' :
         \A i \in 1..Len(PushedBy(c)) :
           \E k \in 1..Len(last'.cands) :
             /\ ChatIdOf(last'.cands[k]) = c
             /\ PushedBy(c)[i].id = ExpectedId(last'.cands[k], c, PushedBy(c)[i].ts)]_vars

\* C23: a client that pages a conversation from cursor 0 with a fixed positive
\* page size, following nextCursor until it is null, finishes after finitely
\* many requests once pushes stop, and has then received every message that
\* was in the log when it started, also when messages were pushed between its
\* requests; when none was pushed it has received each message once, in log
\* order.
C23_ReaderSeesAll ==
  /\ [](reader.reads <= Len(LogOf(Messages, ChatA)) + 1)
  /\ [](reader.pc = "done" =>
          /\ \A i \in 1..Len(reader.start) :
               \E j \in 1..Len(reader.got) : reader.got[j] = reader.start[i]
          /\ LogOf(Messages, ChatA) = reader.start => reader.got = reader.start)
  /\ <>(reader.pc = "done")

\* the client finished after several requests with pushes in between, one
\* message having been returned to it twice
C23_Witness ==
  /\ reader.pc = "done"
  /\ reader.reads >= 2
  /\ Len(reader.start) >= 2
  /\ Len(LogOf(Messages, ChatA)) > Len(reader.start)
  /\ Len(reader.got) > Cardinality(IdsOf(reader.got))

\* the record that arrived last for conversation c
LastArrival(c) == Pushed[c][Len(Pushed[c])]

C25_LogWithinSummary ==
  rev = "part_000" =>
    \A c \in DOMAIN Messages :
      /\ c \in DOMAIN Chats
      /\ \A k \in 1..Len(Messages[c]) : Messages[c][k].ts.n <= Chats[c].lastTs.n

\* the answer that arrived in the step carries a cursor
AnswerHasCursor ==
  /\ Get(bf'.got, "nextCursor").t = "str"
  /\ Get(bf'.got, "nextCursor").s # <<>>

\* the run is left paging the same conversation, with no result
KeptRunning == SameConversation /\ bf'.resp = "none"

\* the step is a webhook delivery made while a page call of the run is pending
DeliveryWhilePaging ==
  /\ bf.pc = "page"
  /\ last'.op = "webhook"
  /\ nOps' = nOps + 1

\* C26: a triggered backfill eventually returns a result when every upstream
\* call returns and the upstream eventually returns a page without cursor for
\* each listed conversation; the pagination loop has no other exit: an
\* ingested page leaves a further request of the same conversation pending,
\* and the run without result, exactly when it carries a cursor; a webhook
\* delivery made while a request is pending is processed and leaves the run
\* where it was.
C26_BackfillReturns ==
  /\ (bf.pc # "idle") ~> (bf.pc = "done" /\ bf.resp # "none")
  /\ [][PageArrives => (KeptRunning <=> AnswerHasCursor)]_vars
  /\ [][DeliveryWhilePaging => bf' = bf]_vars

\* a delivery was processed while the run, having received as many pages with
\* a cursor as the upstream gives, had a further request pending
C26_Witness ==
  /\ bf.pc = "page"
  /\ bf.pages = MaxPages
  /\ Truthy(bf.cursor)
  /\ last.op = "webhook"
  /\ nOps >= 1
  /\ \E c \in DOMAIN Pushed : Len(Pushed[c]) >= 3

====
